---- MODULE Spec2Model ----
(***************************************************************************)
(* cidr2domains (src/main.go): the concurrent scanning core.               *)
(*                                                                         *)
(* main spawns one processCIDR goroutine per range descriptor, a closer    *)
(* goroutine that closes the result channel once every job is done, and    *)
(* then ranges over the result channel printing each new hostname.  Every  *)
(* processCIDR launches *concurrency workers that pull addresses from an   *)
(* unbuffered channel, call fetchHostnamesFromShodan, filter the hostnames *)
(* and send the survivors on the shared result channel.                    *)
(*                                                                         *)
(* Addresses are byte slices, as in net.IP; the model keeps the slice and  *)
(* the byte arithmetic of incrementIP but scales the slice length and the  *)
(* byte width down (IPLen, ByteBits) so that whole ranges can be walked.   *)
(***************************************************************************)
EXTENDS Integers, Sequences, FiniteSets, TLC

\* ------------------------------------------------------------------------
\* Bounds
\* ------------------------------------------------------------------------
\* number of bytes of an address slice (net.IPv4len is 4)
IPLen == 2
\* number of bits of one byte of an address slice (8 in Go)
ByteBits == 2
\* largest worker count (-c) of the runs
MaxWorkers == 2
\* how many lookups may fail in a run of the service that fails
MaxFail == 1
\* the history sequences enq and arrivals stop growing at this length
LogCap == 18

ByteMod == 2 ^ ByteBits
AddrBits == IPLen * ByteBits
AddrSpace == 2 ^ AddrBits

\* ------------------------------------------------------------------------
\* Addresses, masks and networks (net.IP, net.IPMask, net.IPNet)
\* ------------------------------------------------------------------------
Byte == 0 .. (ByteMod - 1)
IP == [1 .. IPLen -> Byte]

Min(a, b) == IF a < b THEN a ELSE b
Max(a, b) == IF a > b THEN a ELSE b

\* bitwise AND of two bytes, bit by bit over n bits
RECURSIVE BitAnd(_, _, _)
BitAnd(a, b, n) ==
    IF n = 0 THEN 0
    ELSE ((a % 2) * (b % 2)) + 2 * BitAnd(a \div 2, b \div 2, n - 1)

\* the integer an address slice denotes (big endian)
RECURSIVE Val(_)
Val(ip) ==
    IF Len(ip) = 0 THEN 0
    ELSE Val(SubSeq(ip, 1, Len(ip) - 1)) * ByteMod + ip[Len(ip)]

\* the address slice of an integer
FromVal(v) == [i \in 1 .. IPLen |-> (v \div (ByteMod ^ (IPLen - i))) % ByteMod]

\* net.CIDRMask(p, bits): p leading one bits
CIDRMask(p) ==
    [i \in 1 .. IPLen |->
        LET ones == Max(0, Min(ByteBits, p - (i - 1) * ByteBits))
        IN  ByteMod - 2 ^ (ByteBits - ones)]

\* a masking that leaves the host bits of the address in place
MaskKeepsHostBits(ip, mask) == ip

\* ip.Mask(mask)
Mask(ip, mask) == [i \in 1 .. IPLen |-> BitAnd(ip[i], mask[i], ByteBits)]

\* ipNet.Contains(ip)
Contains(ipNet, ip) ==
    \A i \in 1 .. IPLen :
        BitAnd(ipNet.IP[i], ipNet.Mask[i], ByteBits) = BitAnd(ip[i], ipNet.Mask[i], ByteBits)

\* incrementIP as a loop over j = len(ip)-1 .. 0: ip[j]++ wraps at the byte
\* width, and the loop goes on to the next byte only when the byte became 0
RECURSIVE incrementFrom(_, _)
incrementFrom(ip, j) ==
    IF j < 1 THEN ip
    ELSE LET b == (ip[j] + 1) % ByteMod
             ip2 == [ip EXCEPT ![j] = b]
         IN  IF b > 0 THEN ip2 ELSE incrementFrom(ip2, j - 1)

incrementIP(ip) == incrementFrom(ip, Len(ip))

\* a range descriptor: the text of a CIDR, parsed or not by net.ParseCIDR
Bad == [ok |-> FALSE, ip |-> <<>>, prefix |-> 0]
D(v, p) == [ok |-> TRUE, ip |-> FromVal(v), prefix |-> p]

\* net.ParseCIDR: the network is the address masked by the prefix mask
NoNet == [IP |-> <<>>, Mask |-> <<>>]
ParseCIDR(d) ==
    IF d.ok
    THEN [err |-> FALSE, ipNet |-> [IP |-> Mask(d.ip, CIDRMask(d.prefix)), Mask |-> CIDRMask(d.prefix)]]
    ELSE [err |-> TRUE, ipNet |-> NoNet]

\* ------------------------------------------------------------------------
\* Hostnames, patterns and the lookup service
\* ------------------------------------------------------------------------
Hint == <<"internal", "example">>
Hpub == <<"public", "example">>
Hdup == <<"dup", "example">>
Hostnames == {Hint, Hpub, Hdup}

\* regexp.MatchString for a literal pattern: the pattern occurs in the name
MatchString(re, h) == \E i \in 1 .. Len(h) : h[i] = re

\* what the service answers for an address when the request succeeds
Shodan(ip) ==
    LET k == Val(ip) % 4
    IN  IF k = 0 THEN <<>>
        ELSE IF k = 1 THEN <<Hpub>>
        ELSE IF k = 2 THEN <<Hdup, Hint>>
        ELSE <<Hdup>>


\* a fetch that parses the body whatever the status of the response
FetchIgnoringStatus(ip, ok) == Shodan(ip)

\* fetchHostnamesFromShodan: a request error, a non-200 status or an
\* unparseable body all return nil, the empty list
fetchHostnamesFromShodan(ip, ok) == IF ok THEN Shodan(ip) ELSE <<>>

\* the two tests in the other order, a match on the include pattern sending
\* the hostname at once
ForwardedMatchFirst(filter, match, h) ==
    IF match # "" /\ MatchString(match, h) THEN TRUE
    ELSE IF filter # "" /\ MatchString(filter, h) THEN FALSE
    ELSE match = ""

\* the two tests of the worker's inner loop: TRUE when the hostname is sent
Forwarded(filter, match, h) ==
    IF filter # "" /\ MatchString(filter, h) THEN FALSE
    ELSE IF match # "" /\ ~MatchString(match, h) THEN FALSE
    ELSE TRUE

\* a launch loop that runs once too often (i <= *concurrency)
WorkerCountInclusive(n) == n + 1

\* the number of workers the launch loop of processCIDR starts
WorkerCount(n) == n

\* the factor of the capacity of the result channel
BufferFactor == 10

\* a result channel with room for one hostname more
ResultCapLoose(n) == n * BufferFactor + 1

\* capacity of the result channel
ResultCap(n) == n * BufferFactor

\* a wait that returns while one goroutine is still running
WaitReturnsEarly(counter) == counter <= 1

\* wg.Wait() returns when the counter is zero
WaitReturns(counter) == counter = 0

\* a send that puts the value at the front of the buffer
ChanSendFront(buf, x) == <<x>> \o buf

\* ch <- x on a channel with room: the value joins the end of the buffer
ChanSend(buf, x) == Append(buf, x)

\* a receive that takes the value sent last
ChanRecvLast(buf) == [val |-> buf[Len(buf)], rest |-> SubSeq(buf, 1, Len(buf) - 1)]

\* a receive from a channel with buffered values: the oldest one
ChanRecv(buf) == [val |-> Head(buf), rest |-> Tail(buf)]

\* a hand-over of the cursor's slice itself, which the worker reads after
\* the producer has incremented it in place
HandedAlias(cursor) == incrementIP(cursor)

\* ipCopy: the slice handed over ipChan is a copy of the cursor
Handed(cursor) == cursor

\* a printing loop that never finds the result in the set
IsNewAlways(seen, result) == TRUE

\* the test of the printing loop: the result is not in uniqueResults yet
IsNew(seen, result) == result \notin seen

\* ------------------------------------------------------------------------
\* Inputs
\* ------------------------------------------------------------------------
\* the (-f, -m) pairs of the runs; "" is an unset flag
FilterPairs ==
    { <<"", "">>, <<"internal", "">>, <<"", "public">>, <<"internal", "example">> }

\* the supplied addresses of the descriptors: one at each end of the address
\* space, both with host bits set for the shorter prefixes
Supplied == { 1, AddrSpace - 2 }

\* a line without a descriptor, and the value of an unset -t
Blank == [ok |-> FALSE, ip |-> <<>>, prefix |-> -1]

\* the flag -l: not given, or a file with these lines
NoFile == [set |-> FALSE, lines |-> <<>>]
File(lines) == [set |-> TRUE, lines |-> lines]

\* isInputFromPipe: standard input is a terminal, or a pipe with these lines
Terminal == [set |-> FALSE, lines |-> <<>>]
Pipe(lines) == [set |-> TRUE, lines |-> lines]

\* the scanner loops of getCIDRList: the lines that are not blank
NonBlank(lines) == SelectSeq(lines, LAMBDA d : d # Blank)

\* getCIDRList: the file if -l is given, else the value of -t, else
\* standard input
getCIDRList(l, t, s) ==
    IF l.set THEN NonBlank(l.lines)
    ELSE IF t # Blank THEN <<t>>
    ELSE NonBlank(s.lines)

\* an input check that takes an empty list for a missing source
NoInputSourceOrEmpty(l, t, s) == getCIDRList(l, t, s) = <<>>

\* the test of main before anything else: neither -t nor -l nor a pipe
NoInputSource(l, t, s) == t = Blank /\ ~l.set /\ ~s.set

\* the default of the flag -c
DefaultConcurrency == 5

\* the flag -c: not given, or given as n
Unset == [set |-> FALSE, n |-> DefaultConcurrency]
Given(n) == [set |-> TRUE, n |-> n]

\* the inputs of a run: the three sources, the flags -c, -f, -m, and how
\* many lookups the service lets fail
Inputs(l, t, s, c, fm, nf) ==
    [l |-> l, t |-> t, s |-> s, c |-> c, f |-> fm[1], m |-> fm[2], nf |-> nf]

\* a run with -c n whose descriptors come from -t when there is one of
\* them and from a list file otherwise
Run(list, n, fm, nf) ==
    IF Len(list) = 1
    THEN Inputs(NoFile, list[1], Terminal, Given(n), fm, nf)
    ELSE Inputs(File(list), Blank, Terminal, Given(n), fm, nf)

\* one pool over a range of four addresses, for every worker count
PoolRuns ==
    { Run(<<D(1, AddrBits - 2)>>, n, <<"", "">>, MaxFail) : n \in 0 .. MaxWorkers }

\* the same range with one worker, for every pair of patterns
FilterRuns ==
    { Run(<<D(1, AddrBits - 2)>>, 1, fm, MaxFail) : fm \in FilterPairs }

\* lists with a malformed entry, two ranges that share a hostname, and no
\* range at all
ListRuns ==
    { Run(list, 1, fm, MaxFail) :
        list \in { <<Bad, D(3, AddrBits - 1)>>,
                   <<D(2, AddrBits - 1), D(AddrSpace - 1, AddrBits - 1)>>,
                   <<Bad>>,
                   <<>> },
        fm \in { <<"", "">>, <<"internal", "">> } }

\* two concurrent jobs with several workers each
WideRuns ==
    { Run(<<D(2, AddrBits), D(AddrSpace - 1, AddrBits)>>, n, <<"", "">>, MaxFail) :
        n \in 2 .. MaxWorkers }

\* one range for every prefix length, one worker, a service that answers
RangeRuns ==
    { Run(<<D(v, p)>>, 1, <<"", "">>, 0) : v \in Supplied, p \in 0 .. AddrBits }

\* one address, -c not given
DefaultRuns ==
    { Inputs(NoFile, D(1, AddrBits), Terminal, Unset, <<"", "">>, 0) }

\* the three sources: none of them, empty ones, blank lines, and more than
\* one of them
SourceRuns ==
    { Inputs(src[1], src[2], src[3], Given(1), <<"", "">>, 0) :
        src \in { <<NoFile, Blank, Terminal>>,
                  <<File(<<>>), Blank, Terminal>>,
                  <<File(<<Blank, Blank>>), Blank, Terminal>>,
                  <<NoFile, Blank, Pipe(<<>>)>>,
                  <<NoFile, Blank, Pipe(<<Blank, D(1, AddrBits), Blank>>)>>,
                  <<File(<<>>), D(1, AddrBits), Pipe(<<D(2, AddrBits)>>)>>,
                  <<NoFile, D(1, AddrBits), Pipe(<<D(2, AddrBits)>>)>> } }

Runs ==
    PoolRuns \cup FilterRuns \cup ListRuns \cup WideRuns \cup RangeRuns
        \cup DefaultRuns \cup SourceRuns

\* ------------------------------------------------------------------------
\* State
\* ------------------------------------------------------------------------
VARIABLES
    listFile,       \* flag -l: the list file
    targetCIDR,     \* flag -t
    stdinPipe,      \* standard input
    cSet,           \* whether -c was given
    cidrList,       \* what getCIDRList() returns for the three sources
    concurrency,    \* *concurrency: the value of -c or its default
    filterRegex,    \* flag -f
    matchRegex,     \* flag -m
    mainPc,         \* main: "check", "fatal", "spawn", "range", "done"
    spawned,        \* main: how many processCIDR goroutines were started
    wg,             \* main's WaitGroup counter
    closerPc,       \* the closing goroutine: "off", "wait", "done"
    ch,             \* buffer of the result channel
    closes,         \* how many times close(ch) ran
    uniqueResults,  \* main's set of printed hostnames
    output,         \* the lines printed on stdout, in order
    stderr,         \* the jobs whose descriptor was reported as unparseable
    panicked,       \* a goroutine panicked (send on a closed channel)
    jpc,            \* per job: "off", "start", "enqueue", "wait", "done"
    ipNet,          \* per job: the parsed network
    ip,             \* per job: the cursor of the enqueue loop
    ipChanClosed,   \* per job: close(ipChan) ran
    localWg,        \* per job: the pool's WaitGroup counter
    wk,             \* per job, per worker: [pc, ip, hostnames]
    inflight,       \* per job, per worker: calls of the lookup in flight
    enq,            \* per job: the addresses handed to ipChan, in order
    looked,         \* per job: the lookups that returned, as [ip, ok, res]
    nlooked,        \* per job: how many lookups returned, up to AddrSpace + 1
    fails,          \* how many lookups failed
    maxFail,        \* how many lookups the service lets fail in this run
    arrivals,       \* the sends on ch, in order, as [h, j, ip]
    received        \* how many results main received from ch

vars == << listFile, targetCIDR, stdinPipe, cSet, cidrList, concurrency, filterRegex, matchRegex, maxFail, mainPc, spawned, wg,
           closerPc, ch, closes, uniqueResults, output, stderr, panicked, jpc,
           ipNet, ip, ipChanClosed, localWg, wk, inflight, enq, looked, nlooked,
           fails, arrivals, received >>

flags == << listFile, targetCIDR, stdinPipe, cSet, cidrList, concurrency, filterRegex,
           matchRegex, maxFail >>
mainVars == << mainPc, spawned, uniqueResults, output, received >>
jobVars == << jpc, ipNet, ip, ipChanClosed, localWg, wk, inflight, enq, looked,
             nlooked, fails >>

Jobs == 1 .. Len(cidrList)
Workers(j) == DOMAIN wk[j]

\* a history sequence records up to LogCap entries
Log(s, x) == IF Len(s) < LogCap THEN Append(s, x) ELSE s

\* the process is alive: main has not returned, os.Exit was not called
\* and nothing panicked
Running == mainPc \notin {"done", "fatal"} /\ ~panicked

\* the state when main has parsed the flags
InitWith(list, r) ==
    /\ maxFail = r.nf
    /\ listFile = r.l
    /\ targetCIDR = r.t
    /\ stdinPipe = r.s
    /\ cSet = r.c.set
    /\ cidrList = list
    /\ concurrency = r.c.n
    /\ filterRegex = r.f
    /\ matchRegex = r.m
    /\ mainPc = "check"
    /\ spawned = 0
    /\ wg = 0
    /\ closerPc = "off"
    /\ ch = <<>>
    /\ closes = 0
    /\ uniqueResults = {}
    /\ output = <<>>
    /\ stderr = {}
    /\ panicked = FALSE
    /\ jpc = [j \in 1 .. Len(list) |-> "off"]
    /\ ipNet = [j \in 1 .. Len(list) |-> NoNet]
    /\ ip = [j \in 1 .. Len(list) |-> <<>>]
    /\ ipChanClosed = [j \in 1 .. Len(list) |-> FALSE]
    /\ localWg = [j \in 1 .. Len(list) |-> 0]
    /\ wk = [j \in 1 .. Len(list) |-> <<>>]
    /\ inflight = [j \in 1 .. Len(list) |-> <<>>]
    /\ enq = [j \in 1 .. Len(list) |-> <<>>]
    /\ looked = [j \in 1 .. Len(list) |-> {}]
    /\ nlooked = [j \in 1 .. Len(list) |-> 0]
    /\ fails = 0
    /\ arrivals = <<>>
    /\ received = 0

Init == \E r \in Runs : InitWith(getCIDRList(r.l, r.t, r.s), r)

\* ------------------------------------------------------------------------
\* main
\* ------------------------------------------------------------------------
\* the input check: without a source the error is reported and the process
\* exits with status 1 ("fatal"); with one, the patterns are compiled, the list is read and the
\* channel is made
CheckInput ==
    /\ Running
    /\ mainPc = "check"
    /\ mainPc' = IF NoInputSource(listFile, targetCIDR, stdinPipe)
                 THEN "fatal"
                 ELSE "spawn"
    /\ UNCHANGED << flags, spawned, wg, closerPc, ch, closes, uniqueResults, output,
                    received, stderr, panicked, jobVars, arrivals >>

\* one turn of the loop over cidrList: wg.Add(1); go processCIDR(...)
Spawn ==
    /\ Running
    /\ mainPc = "spawn"
    /\ spawned < Len(cidrList)
    /\ spawned' = spawned + 1
    /\ wg' = wg + 1
    /\ jpc' = [jpc EXCEPT ![spawned + 1] = "start"]
    /\ UNCHANGED << flags, mainPc, closerPc, ch, closes, uniqueResults, output,
                    received, stderr, panicked, ipNet, ip, ipChanClosed, localWg, wk,
                    inflight, enq, looked, nlooked, fails, arrivals >>

\* the loop is over: go func() { wg.Wait(); close(ch) }() and main enters
\* its range over ch
StartCloser ==
    /\ Running
    /\ mainPc = "spawn"
    /\ spawned = Len(cidrList)
    /\ mainPc' = "range"
    /\ closerPc' = "wait"
    /\ UNCHANGED << flags, spawned, wg, ch, closes, uniqueResults, output,
                    received, stderr, panicked, jobVars, arrivals >>

\* a closing goroutine that closes without waiting for the jobs
CloseChNoWait ==
    /\ Running
    /\ closerPc = "wait"
    /\ closerPc' = "done"
    /\ closes' = closes + 1
    /\ panicked' = (closes > 0)
    /\ UNCHANGED << flags, mainVars, wg, ch, stderr, jobVars, arrivals >>

\* the closing goroutine: wg.Wait() returned, close(ch)
CloseCh ==
    /\ Running
    /\ closerPc = "wait"
    /\ WaitReturns(wg)
    /\ closerPc' = "done"
    /\ closes' = closes + 1
    /\ panicked' = (closes > 0)
    /\ UNCHANGED << flags, mainVars, wg, ch, stderr, jobVars, arrivals >>

\* main receives one result and prints it when it is new
Receive ==
    /\ Running
    /\ mainPc = "range"
    /\ Len(ch) > 0
    /\ LET result == ChanRecv(ch).val
       IN  /\ ch' = ChanRecv(ch).rest
           /\ IF IsNew(uniqueResults, result)
              THEN /\ uniqueResults' = uniqueResults \cup {result}
                   /\ output' = Append(output, result)
              ELSE UNCHANGED << uniqueResults, output >>
    /\ received' = Min(LogCap, received + 1)
    /\ UNCHANGED << flags, mainPc, spawned, wg, closerPc, closes, stderr,
                    panicked, jobVars, arrivals >>

\* the range over ch ends: ch is closed and drained, main returns
Finish ==
    /\ Running
    /\ mainPc = "range"
    /\ Len(ch) = 0
    /\ closes > 0
    /\ mainPc' = "done"
    /\ UNCHANGED << flags, spawned, wg, closerPc, ch, closes, uniqueResults,
                    output, received, stderr, panicked, jobVars, arrivals >>


\* ------------------------------------------------------------------------
\* processCIDR
\* ------------------------------------------------------------------------
\* a parse failure that ends the process, as log.Fatalf would
ParseFailExits(j) ==
    /\ Running
    /\ jpc[j] = "start"
    /\ ParseCIDR(cidrList[j]).err
    /\ stderr' = stderr \cup {j}
    /\ mainPc' = "done"
    /\ UNCHANGED << flags, spawned, uniqueResults, output, received, wg, jpc,
                    closerPc, ch, closes, panicked, ipNet, ip, ipChanClosed,
                    localWg, wk, inflight, enq, looked, nlooked, fails, arrivals >>

\* net.ParseCIDR fails: the error is reported and the deferred wg.Done() runs
ParseFail(j) ==
    /\ Running
    /\ jpc[j] = "start"
    /\ ParseCIDR(cidrList[j]).err
    /\ stderr' = stderr \cup {j}
    /\ wg' = wg - 1
    /\ jpc' = [jpc EXCEPT ![j] = "done"]
    /\ UNCHANGED << flags, mainVars, closerPc, ch, closes, panicked, ipNet, ip,
                    ipChanClosed, localWg, wk, inflight, enq, looked, nlooked, fails, arrivals >>

\* the descriptor parses: make(ipChan), the workers are launched with
\* localWg.Add(1) each, and the cursor starts at ipNet.IP.Mask(ipNet.Mask)
Launch(j) ==
    /\ Running
    /\ jpc[j] = "start"
    /\ ~ParseCIDR(cidrList[j]).err
    /\ LET net == ParseCIDR(cidrList[j]).ipNet
           n == WorkerCount(concurrency)
       IN  /\ ipNet' = [ipNet EXCEPT ![j] = net]
           /\ ip' = [ip EXCEPT ![j] = Mask(net.IP, net.Mask)]
           /\ wk' = [wk EXCEPT ![j] = [w \in 1 .. n |-> [pc |-> "pull", ip |-> <<>>, hostnames |-> <<>>]]]
           /\ inflight' = [inflight EXCEPT ![j] = [w \in 1 .. n |-> 0]]
           /\ localWg' = [localWg EXCEPT ![j] = n]
    /\ jpc' = [jpc EXCEPT ![j] = "enqueue"]
    /\ UNCHANGED << flags, mainVars, wg, closerPc, ch, closes, stderr, panicked,
                    ipChanClosed, enq, looked, nlooked, fails, arrivals >>

\* one turn of the enqueue loop: the cursor is in the network, a copy of it
\* is handed over ipChan to a worker waiting in its range loop, and the
\* cursor is incremented in place; the worker calls the lookup
Enqueue(j, w) ==
    /\ Running
    /\ jpc[j] = "enqueue"
    /\ w \in Workers(j)
    /\ wk[j][w].pc = "pull"
    /\ Contains(ipNet[j], ip[j])
    /\ LET ipCopy == Handed(ip[j])
       IN  /\ wk' = [wk EXCEPT ![j][w] = [pc |-> "lookup", ip |-> ipCopy, hostnames |-> <<>>]]
           /\ enq' = [enq EXCEPT ![j] = Log(@, ip[j])]
    /\ inflight' = [inflight EXCEPT ![j][w] = @ + 1]
    /\ ip' = [ip EXCEPT ![j] = incrementIP(@)]
    /\ UNCHANGED << flags, mainVars, wg, closerPc, ch, closes, stderr, panicked,
                    jpc, ipNet, ipChanClosed, localWg, looked, nlooked, fails, arrivals >>

\* the cursor left the network: close(ipChan), then localWg.Wait()
CloseIpChan(j) ==
    /\ Running
    /\ jpc[j] = "enqueue"
    /\ ~Contains(ipNet[j], ip[j])
    /\ ipChanClosed' = [ipChanClosed EXCEPT ![j] = TRUE]
    /\ jpc' = [jpc EXCEPT ![j] = "wait"]
    /\ UNCHANGED << flags, mainVars, wg, closerPc, ch, closes, stderr, panicked,
                    ipNet, ip, localWg, wk, inflight, enq, looked, nlooked, fails, arrivals >>

\* a processCIDR that returns after close(ipChan) without localWg.Wait()
JobDoneNoWait(j) ==
    /\ Running
    /\ jpc[j] = "wait"
    /\ jpc' = [jpc EXCEPT ![j] = "done"]
    /\ wg' = wg - 1
    /\ UNCHANGED << flags, mainVars, closerPc, ch, closes, stderr, panicked,
                    ipNet, ip, ipChanClosed, localWg, wk, inflight, enq, looked,
                    nlooked, fails, arrivals >>

\* localWg.Wait() returned: processCIDR returns and the deferred wg.Done() runs
JobDone(j) ==
    /\ Running
    /\ jpc[j] = "wait"
    /\ WaitReturns(localWg[j])
    /\ jpc' = [jpc EXCEPT ![j] = "done"]
    /\ wg' = wg - 1
    /\ UNCHANGED << flags, mainVars, closerPc, ch, closes, stderr, panicked,
                    ipNet, ip, ipChanClosed, localWg, wk, inflight, enq, looked,
                    nlooked, fails, arrivals >>

\* ------------------------------------------------------------------------
\* the workers of processCIDR
\* ------------------------------------------------------------------------
\* where a worker goes with the hostnames left to handle: back to its range
\* over ipChan when there is none
After(hs) == IF hs = <<>> THEN "pull" ELSE "fwd"

\* the lookup returns, with the hostnames of the page (ok) or with nil
LookupReturn(j, w, ok) ==
    /\ Running
    /\ w \in Workers(j)
    /\ wk[j][w].pc = "lookup"
    /\ ok \/ fails < maxFail
    /\ fails' = IF ok THEN fails ELSE fails + 1
    /\ nlooked' = [nlooked EXCEPT ![j] = Min(AddrSpace + 1, @ + 1)]
    /\ LET hs == fetchHostnamesFromShodan(wk[j][w].ip, ok)
       IN  /\ wk' = [wk EXCEPT ![j][w] = [pc |-> After(hs), ip |-> @.ip, hostnames |-> hs]]
           /\ looked' = [looked EXCEPT ![j] = @ \cup {[ip |-> wk[j][w].ip, ok |-> ok, res |-> hs]}]
    /\ inflight' = [inflight EXCEPT ![j][w] = @ - 1]
    /\ UNCHANGED << flags, mainVars, wg, closerPc, ch, closes, stderr, panicked,
                    jpc, ipNet, ip, ipChanClosed, localWg, enq, arrivals >>

LookupOK(j, w) == LookupReturn(j, w, TRUE)
LookupFail(j, w) == LookupReturn(j, w, FALSE)

\* the next hostname fails one of the two tests: continue
Drop(j, w) ==
    /\ Running
    /\ w \in Workers(j)
    /\ wk[j][w].pc = "fwd"
    /\ ~Forwarded(filterRegex, matchRegex, Head(wk[j][w].hostnames))
    /\ wk' = [wk EXCEPT ![j][w] = [pc |-> After(Tail(@.hostnames)), ip |-> @.ip, hostnames |-> Tail(@.hostnames)]]
    /\ UNCHANGED << flags, mainVars, wg, closerPc, ch, closes, stderr, panicked,
                    jpc, ipNet, ip, ipChanClosed, localWg, inflight, enq, looked,
                    nlooked, fails, arrivals >>

\* the next hostname passes: ch <- hostname, which waits for room in the
\* buffer and panics on a closed channel
Send(j, w) ==
    /\ Running
    /\ w \in Workers(j)
    /\ wk[j][w].pc = "fwd"
    /\ Forwarded(filterRegex, matchRegex, Head(wk[j][w].hostnames))
    /\ IF closes > 0
       THEN /\ panicked' = TRUE
            /\ UNCHANGED << ch, arrivals, wk >>
       ELSE /\ Len(ch) < ResultCap(concurrency)
            /\ ch' = ChanSend(ch, Head(wk[j][w].hostnames))
            /\ arrivals' = Log(arrivals, [h |-> Head(wk[j][w].hostnames), j |-> j, ip |-> wk[j][w].ip])
            /\ wk' = [wk EXCEPT ![j][w] = [pc |-> After(Tail(@.hostnames)), ip |-> @.ip, hostnames |-> Tail(@.hostnames)]]
            /\ UNCHANGED panicked
    /\ UNCHANGED << flags, mainVars, wg, closerPc, closes, stderr,
                    jpc, ipNet, ip, ipChanClosed, localWg, inflight, enq, looked,
                    nlooked, fails >>

\* the range over ipChan ends on the closed channel: the deferred
\* localWg.Done() runs
WorkerExit(j, w) ==
    /\ Running
    /\ w \in Workers(j)
    /\ wk[j][w].pc = "pull"
    /\ ipChanClosed[j]
    /\ wk' = [wk EXCEPT ![j][w] = [pc |-> "exit", ip |-> @.ip, hostnames |-> <<>>]]
    /\ localWg' = [localWg EXCEPT ![j] = @ - 1]
    /\ UNCHANGED << flags, mainVars, wg, closerPc, ch, closes, stderr, panicked,
                    jpc, ipNet, ip, ipChanClosed, inflight, enq, looked, nlooked, fails, arrivals >>

\* ------------------------------------------------------------------------
\* Specifications
\* ------------------------------------------------------------------------
WorkerIds == 1 .. (Max(MaxWorkers, DefaultConcurrency) + 1)

Next ==
    \/ CheckInput
    \/ Spawn
    \/ StartCloser
    \/ CloseCh
    \/ Receive
    \/ Finish
    \/ \E j \in Jobs : ParseFail(j)
    \/ \E j \in Jobs : Launch(j)
    \/ \E j \in Jobs : CloseIpChan(j)
    \/ \E j \in Jobs : JobDone(j)
    \/ \E j \in Jobs, w \in WorkerIds : Enqueue(j, w)
    \/ \E j \in Jobs, w \in WorkerIds : LookupOK(j, w)
    \/ \E j \in Jobs, w \in WorkerIds : LookupFail(j, w)
    \/ \E j \in Jobs, w \in WorkerIds : Drop(j, w)
    \/ \E j \in Jobs, w \in WorkerIds : Send(j, w)
    \/ \E j \in Jobs, w \in WorkerIds : WorkerExit(j, w)

Spec == Init /\ [][Next]_vars

\* the jobs of the longest list of the runs
JobIds == { 1, 2 }

\* every goroutine that can take a step eventually takes one, and every
\* lookup returns
Fairness ==
    /\ WF_vars(CheckInput \/ Spawn \/ StartCloser \/ Receive \/ Finish)
    /\ WF_vars(CloseCh)
    /\ \A j \in JobIds :
          WF_vars(j \in Jobs /\ (ParseFail(j) \/ Launch(j) \/ CloseIpChan(j) \/ JobDone(j)
                                    \/ \E w \in WorkerIds : Enqueue(j, w)))
    /\ \A j \in JobIds, w \in WorkerIds :
          WF_vars(j \in Jobs /\ (LookupOK(j, w) \/ LookupFail(j, w) \/ Drop(j, w)
                                    \/ Send(j, w) \/ WorkerExit(j, w)))

FairSpec == Spec /\ Fairness

\* ------------------------------------------------------------------------
\* Properties
\* ------------------------------------------------------------------------
\* the range of a descriptor, by arithmetic on the address integer
RangeSize(d) == 2 ^ (AddrBits - d.prefix)
NetVal(d) == Val(d.ip) - (Val(d.ip) % RangeSize(d))
LastVal(d) == NetVal(d) + RangeSize(d) - 1
RangeOf(d) == { FromVal(v) : v \in NetVal(d) .. LastVal(d) }

ValidJobs == { j \in Jobs : cidrList[j].ok }
SetOf(s) == { s[i] : i \in 1 .. Len(s) }
NoDup(s) == \A i, k \in 1 .. Len(s) : i # k => s[i] # s[k]
Terminated == mainPc = "done"

\* C1: for every valid descriptor of prefix length p, the addresses handed
\* to the job's address queue are, in order, network, network+1, ... (so
\* strictly increasing, without omission or duplicate, starting at the
\* masked supplied address), there are never more than 2^(AddrBits-p) of
\* them, and when the queue is closed there are exactly that many, the last
\* one being the last address of the range.
C1_RangeSequence ==
    \A j \in ValidJobs :
        LET d == cidrList[j]
        IN  /\ Len(enq[j]) <= RangeSize(d)
            /\ \A i \in 1 .. Len(enq[j]) : Val(enq[j][i]) = NetVal(d) + i - 1
            /\ ipChanClosed[j] =>
                 /\ Len(enq[j]) = RangeSize(d)
                 /\ Val(enq[j][Len(enq[j])]) = LastVal(d)

\* C2: enumeration ends without relying on wraparound: once the largest
\* address of the address space has been enqueued the enqueue loop is over
\* (its next step closes the address queue), and no address is ever enqueued
\* a second time.
C2_NoWraparound ==
    \A j \in ValidJobs :
        /\ ( /\ jpc[j] = "enqueue"
             /\ enq[j] # <<>>
             /\ Val(enq[j][Len(enq[j])]) = AddrSpace - 1 )
           => ~Contains(ipNet[j], ip[j])
        /\ NoDup(enq[j])


\* the filter law as the specification words it
Pass(h) ==
    /\ (filterRegex = "" \/ ~MatchString(filterRegex, h))
    /\ (matchRegex = "" \/ MatchString(matchRegex, h))

\* the lookup of address a by job j failed
Failed(j, a) == \E r \in looked[j] : r.ip = a /\ ~r.ok

\* the hostnames a terminated run owes the caller: those the service has
\* for an address of a validly parsed range whose lookup did not fail, and
\* that pass the filters
Expected ==
    { h \in Hostnames :
        \E j \in ValidJobs : \E a \in RangeOf(cidrList[j]) :
            /\ ~Failed(j, a)
            /\ h \in SetOf(Shodan(a))
            /\ Pass(h) }

\* C3: when the run has terminated, the set of hostnames written to the
\* output is exactly the set of hostnames that some address of some validly
\* parsed range has in its lookup result and that pass the filters.
C3_EndToEnd == Terminated => SetOf(output) = Expected

\* a terminated run of two valid ranges with a pattern set, a failed lookup
\* and a printed hostname
C3_Witness ==
    /\ Terminated
    /\ Cardinality(ValidJobs) = 2
    /\ filterRegex # ""
    /\ fails > 0
    /\ output # <<>>

\* the sends on ch are all recorded
FullLog == Len(arrivals) < LogCap

\* C4: whatever the interleaving of the sends of the jobs' workers, no
\* hostname is printed twice, and the printed hostnames are exactly the
\* hostnames of the sends main has received so far (each one once, none
\* before its first arrival).
C4_Dedup ==
    /\ NoDup(output)
    /\ FullLog =>
         /\ received <= Len(arrivals)
         /\ SetOf(output) = { arrivals[i].h : i \in 1 .. received }

\* main has received the same hostname from workers of two jobs
C4_Witness ==
    /\ FullLog
    /\ \E i, k \in 1 .. received :
          /\ i < k
          /\ arrivals[i].h = arrivals[k].h
          /\ arrivals[i].j # arrivals[k].j

\* C5: a hostname returned by a lookup is sent on the result channel iff
\* (the exclude pattern is unset or does not match it) and (the include
\* pattern is unset or matches it): every send is of a passing hostname of
\* the lookup result of its address, and every passing hostname of a
\* returned lookup has been sent or is still in its worker's hands.
C5_FilterLaw ==
    FullLog =>
      /\ \A i \in 1 .. Len(arrivals) :
            /\ Pass(arrivals[i].h)
            /\ arrivals[i].h \in SetOf(Shodan(arrivals[i].ip))
      /\ \A j \in Jobs : \A r \in looked[j] : \A h \in SetOf(r.res) :
            Pass(h) =>
              \/ \E i \in 1 .. Len(arrivals) : arrivals[i] = [h |-> h, j |-> j, ip |-> r.ip]
              \/ \E w \in Workers(j) :
                    /\ wk[j][w].pc = "fwd"
                    /\ wk[j][w].ip = r.ip
                    /\ h \in SetOf(wk[j][w].hostnames)

\* both patterns are set, a lookup returned a hostname matching both, the
\* run is over and that hostname was never sent while another one was
C5_Witness ==
    /\ Terminated
    /\ filterRegex = "internal"
    /\ matchRegex = "example"
    /\ \E j \in Jobs : \E r \in looked[j] : Hint \in SetOf(r.res)
    /\ \A i \in 1 .. Len(arrivals) : arrivals[i].h # Hint
    /\ arrivals # <<>>

\* the number of lookups of job j in flight
RECURSIVE SumTo(_, _)
SumTo(f, n) == IF n = 0 THEN 0 ELSE f[n] + SumTo(f, n - 1)
InFlight(j) == SumTo(inflight[j], Len(inflight[j]))

\* C6: the number of lookups in flight for one job never exceeds the worker
\* count, and a worker never has more than one lookup in flight.
C6_PoolBound ==
    \A j \in Jobs :
        /\ InFlight(j) <= concurrency
        /\ \A w \in Workers(j) : inflight[j][w] <= 1

\* every worker of a pool of several workers has a lookup in flight
C6_Witness ==
    \E j \in Jobs :
        /\ concurrency >= 2
        /\ InFlight(j) = concurrency


\* the addresses job j has looked up
LookedUp(j) == { r.ip : r \in looked[j] }

\* a step in which the lookup of worker w of job j fails
FailStep(j, w) ==
    /\ wk[j][w].pc = "lookup"
    /\ fails' = fails + 1
    /\ wk'[j][w] # wk[j][w]

\* C7: a failed lookup is an empty result: in the step in which it returns
\* the worker goes back to pulling with nothing to forward, and nothing else
\* changes for the other workers, the jobs, the result channel or main; and
\* a run with a failed lookup that has terminated has looked up every
\* address of every valid range exactly once.
C7_LookupFailure ==
    /\ [][ \A j \in Jobs : \A w \in Workers(j) :
              FailStep(j, w) =>
                /\ wk'[j][w].pc = "pull"
                /\ wk'[j][w].hostnames = <<>>
                /\ \A j2 \in Jobs : \A w2 \in Workers(j2) :
                      << j2, w2 >> # << j, w >> => wk'[j2][w2] = wk[j2][w2]
                /\ UNCHANGED << ch, arrivals, output, uniqueResults, received,
                                mainPc, closerPc, closes, wg, panicked, stderr,
                                jpc, ip, ipChanClosed, localWg, enq >> ]_vars
    /\ [](Terminated /\ fails > 0 =>
            \A j \in ValidJobs :
                /\ nlooked[j] = RangeSize(cidrList[j])
                /\ LookedUp(j) = RangeOf(cidrList[j]))

\* a terminated run in which the lookup of an address with hostnames failed
\* and the same job looked up a later address successfully
C7_Witness ==
    /\ Terminated
    /\ \E j \in ValidJobs : \E r, r2 \in looked[j] :
          /\ ~r.ok
          /\ Shodan(r.ip) # <<>>
          /\ r2.ok
          /\ Val(r2.ip) > Val(r.ip)

\* C8: a malformed descriptor is reported and its job is skipped: it never
\* enqueues an address, starts a worker or makes a lookup, it is reported
\* exactly when it is done, and it counts as completed in main's WaitGroup;
\* a terminated run has closed the result channel and looked up every
\* address of every other descriptor.
C8_Malformed ==
    /\ \A j \in Jobs \ ValidJobs :
          /\ enq[j] = <<>>
          /\ wk[j] = <<>>
          /\ nlooked[j] = 0
          /\ looked[j] = {}
          /\ jpc[j] \in {"off", "start", "done"}
          /\ jpc[j] = "done" <=> j \in stderr
    /\ stderr \subseteq Jobs \ ValidJobs
    /\ wg = Cardinality({ j \in Jobs : jpc[j] \notin {"off", "done"} })
    /\ Terminated =>
          /\ closes = 1
          /\ \A j \in ValidJobs : LookedUp(j) = RangeOf(cidrList[j])

\* a terminated run with a reported malformed entry and a valid range that
\* produced output
C8_Witness ==
    /\ Terminated
    /\ stderr # {}
    /\ ValidJobs # {}
    /\ output # <<>>

\* C9: the result channel is closed at most once and only when main has
\* started every job and every job is done; main leaves its loop only with
\* the channel closed and empty and every send received, and when the
\* channel is closed and empty main's next step is to leave the loop.
C9_CloseOnce ==
    /\ closes <= 1
    /\ closes > 0 => /\ spawned = Len(cidrList)
                     /\ \A j \in Jobs : jpc[j] = "done"
    /\ Terminated => /\ closes = 1
                     /\ ch = <<>>
                     /\ FullLog => received = Len(arrivals)
    /\ (mainPc = "range" /\ closes = 1 /\ ch = <<>>) => ENABLED Finish

\* the channel was closed with results of two jobs still buffered
C9_Witness ==
    /\ closes = 1
    /\ Len(cidrList) = 2
    /\ Len(ch) >= 2
    /\ \E i, k \in 1 .. Len(arrivals) : arrivals[i].j # arrivals[k].j

\* C10: with an input source and at least one worker per pool, every run
\* eventually reaches the
\* state in which every job is done, the result channel is closed and empty
\* and main has returned, and no state before that is a deadlock.
C10_Termination ==
    /\ (concurrency >= 1 /\ ~NoInputSource(listFile, targetCIDR, stdinPipe)) =>
          <>( /\ Terminated
              /\ closes = 1
              /\ ch = <<>>
              /\ \A j \in Jobs : jpc[j] = "done" )
    /\ [](concurrency >= 1 /\ ~Terminated /\ mainPc # "fatal" => ENABLED Next)


\* a sequence without the repeats of its elements
RECURSIVE Dedup(_)
Dedup(s) ==
    IF s = <<>> THEN <<>>
    ELSE LET d == Dedup(SubSeq(s, 1, Len(s) - 1))
             x == s[Len(s)]
         IN  IF x \in SetOf(d) THEN d ELSE Append(d, x)

\* the index of the first send of hostname h, and the place of x in s
FirstAt(h) ==
    CHOOSE i \in 1 .. Len(arrivals) :
        arrivals[i].h = h /\ \A k \in 1 .. (i - 1) : arrivals[k].h # h
PosIn(s, x) == CHOOSE i \in 1 .. Len(s) : s[i] = x

\* the passing hostnames of the non-failed lookups of job j for the
\* addresses v .. last, in ascending address order
RECURSIVE StreamFrom(_, _, _)
StreamFrom(j, v, last) ==
    IF v > last THEN <<>>
    ELSE (IF Failed(j, FromVal(v)) THEN <<>>
          ELSE SelectSeq(Shodan(FromVal(v)), LAMBDA h : Pass(h)))
         \o StreamFrom(j, v + 1, last)
Stream(j) == StreamFrom(j, NetVal(cidrList[j]), LastVal(cidrList[j]))

SingleJob == Len(cidrList) = 1 /\ concurrency = 1

\* C11: with one range and one worker the printed hostnames are in
\* ascending order of the address that first produced them, two hostnames
\* of one address in the order of the lookup result, and a terminated run
\* has printed exactly the lookup results in address order with the
\* repeats removed.
C11_AddressOrder ==
    (SingleJob /\ FullLog) =>
      /\ \A i, k \in 1 .. Len(output) :
            i < k =>
              LET a == arrivals[FirstAt(output[i])]
                  b == arrivals[FirstAt(output[k])]
              IN  \/ Val(a.ip) < Val(b.ip)
                  \/ /\ a.ip = b.ip
                     /\ PosIn(Shodan(a.ip), a.h) < PosIn(Shodan(b.ip), b.h)
      /\ (Terminated /\ cidrList[1].ok) => output = Dedup(Stream(1))

\* a terminated run of one range and one worker that printed three
\* hostnames out of four sends
C11_Witness ==
    /\ SingleJob
    /\ Terminated
    /\ Len(output) = 3
    /\ received = 4


\* C14: a job is done (its wg.Done() has run) only when its producer has
\* handed over every address of the range and closed the address queue and
\* every one of its workers has left its loop with nothing in flight or
\* pending; main's counter is the number of started jobs that are not done.
C14_JobComplete ==
    /\ \A j \in ValidJobs :
          jpc[j] = "done" =>
            /\ ipChanClosed[j]
            /\ ~Contains(ipNet[j], ip[j])
            /\ nlooked[j] = RangeSize(cidrList[j])
            /\ Len(enq[j]) = Min(LogCap, RangeSize(cidrList[j]))
            /\ localWg[j] = 0
            /\ Len(wk[j]) = concurrency
            /\ \A w \in Workers(j) :
                  /\ wk[j][w].pc = "exit"
                  /\ wk[j][w].hostnames = <<>>
                  /\ inflight[j][w] = 0
    /\ wg = spawned - Cardinality({ j \in Jobs : jpc[j] = "done" })

\* a job of several workers over four addresses is done while main is
\* still receiving
C14_Witness ==
    \E j \in ValidJobs :
        /\ jpc[j] = "done"
        /\ concurrency >= 2
        /\ RangeSize(cidrList[j]) = 4
        /\ ~Terminated
        /\ ch # <<>>

\* C18: the printed sequence is the sequence of the hostnames main has
\* received, in the order of their sends, with every repeat removed.
C18_EmissionOrder ==
    FullLog => output = Dedup([i \in 1 .. received |-> arrivals[i].h])

\* main has received three sends of two jobs, one of them a repeat, and
\* another send is waiting in the buffer
C18_Witness ==
    /\ FullLog
    /\ Len(cidrList) = 2
    /\ received >= 3
    /\ Len(output) < received
    /\ Len(output) >= 2
    /\ ch # <<>>

\* C19: nothing panics, and once the result channel is closed every worker
\* of every job has left its loop, so that no send can follow the close.
C19_NoSendAfterClose ==
    /\ ~panicked
    /\ closes > 0 =>
          \A j \in Jobs : \A w \in Workers(j) :
              /\ wk[j][w].pc = "exit"
              /\ wk[j][w].hostnames = <<>>

\* the channel is closed after the workers of a pool of several workers
\* have sent results
C19_Witness ==
    /\ closes = 1
    /\ arrivals # <<>>
    /\ \E j \in Jobs : Len(wk[j]) >= 2


\* the workers of job j that hold an address: looking it up or forwarding
\* its hostnames
Busy(j) == { w \in Workers(j) : wk[j][w].pc \in {"lookup", "fwd"} }

\* the workers of job j whose lookup has not returned
InLookup(j) == { w \in Workers(j) : wk[j][w].pc = "lookup" }

\* the jobs whose pool has been launched
Launched == { j \in Jobs : jpc[j] \in {"enqueue", "wait", "done"} }

\* C15: the enqueue step can be taken only with a worker of the job that is
\* pulling; at most N workers hold an address; the cursor is exactly the
\* address after the last one handed over, every address handed over is
\* either looked up or held by a worker in its lookup, and what a worker
\* holds is an address already handed over.
C15_Backpressure ==
    \A j \in Launched :
        /\ \A w \in WorkerIds :
              ENABLED Enqueue(j, w) => (w \in Workers(j) /\ wk[j][w].pc = "pull")
        /\ Cardinality(Busy(j)) <= concurrency
        /\ Len(enq[j]) < LogCap =>
              /\ Val(ip[j]) = (NetVal(cidrList[j]) + Len(enq[j])) % AddrSpace
              /\ Len(enq[j]) - nlooked[j] = Cardinality(InLookup(j))
              /\ \A w \in Busy(j) : wk[j][w].ip \in SetOf(enq[j])

\* the producer holds an address of the range and cannot hand it over:
\* every worker of a pool of several workers is busy
C15_Witness ==
    \E j \in Launched :
        /\ concurrency >= 2
        /\ jpc[j] = "enqueue"
        /\ Contains(ipNet[j], ip[j])
        /\ Cardinality(Busy(j)) = concurrency
        /\ \A w \in WorkerIds : ~ENABLED Enqueue(j, w)

\* worker w of job j is at a send: the next hostname passes the two tests
AtSend(j, w) ==
    /\ wk[j][w].pc = "fwd"
    /\ Forwarded(filterRegex, matchRegex, Head(wk[j][w].hostnames))

\* C16: the result channel never holds more than 10 x N hostnames; a worker
\* at a send can send exactly when the channel has room; and a worker at a
\* send keeps its hostname until the step that appends it to the channel.
C16_SinkBound ==
    /\ [](/\ Len(ch) <= BufferFactor * concurrency
          /\ \A j \in Jobs : \A w \in Workers(j) :
                AtSend(j, w) =>
                    (ENABLED Send(j, w) <=> Len(ch) < BufferFactor * concurrency))
    /\ [][\A j \in Jobs : \A w \in Workers(j) :
            AtSend(j, w) =>
                \/ wk'[j][w] = wk[j][w]
                \/ /\ ch' = Append(ch, Head(wk[j][w].hostnames))
                   /\ wk'[j][w].hostnames = Tail(wk[j][w].hostnames)]_vars

\* the channel is full and a worker is blocked at its send
C16_Witness ==
    /\ Len(ch) = BufferFactor * concurrency
    /\ concurrency >= 1
    /\ \E j \in Jobs : \E w \in Workers(j) : AtSend(j, w) /\ ~ENABLED Send(j, w)

\* C17: every address handed over is pulled by one worker of the job and
\* looked up once with the value it had when it was handed over: no address
\* is handed over twice, the addresses looked up and those held by workers
\* in their lookup are the addresses handed over, each once.
C17_LookupOnce ==
    \A j \in Launched :
        Len(enq[j]) < LogCap =>
            /\ NoDup(enq[j])
            /\ LookedUp(j) \cup { wk[j][w].ip : w \in InLookup(j) } = SetOf(enq[j])
            /\ LookedUp(j) \cap { wk[j][w].ip : w \in InLookup(j) } = {}
            /\ Cardinality(LookedUp(j)) = nlooked[j]
            /\ \A v, w \in InLookup(j) : wk[j][v].ip = wk[j][w].ip => v = w


\* C12: without -c every launched pool has 100 workers.
C12_DefaultWorkers ==
    \A j \in Launched : ~cSet => Len(wk[j]) = 100

\* none of the three input sources is given
NoSource == targetCIDR = Blank /\ ~listFile.set /\ ~stdinPipe.set

\* C13 as stated: a run without any range (no -t, an empty list file or
\* empty piped input) ends in the error outcome before any job is started
\* and never completes normally.
C13_EmptyInputFatal ==
    cidrList = <<>> => mainPc \in {"check", "fatal"}

\* C13, amended: the run ends in the error outcome exactly when none of the
\* three input sources is given, and then before any job, the closing
\* goroutine or any output; a source without a range (an empty list file,
\* empty piped input) is not an error: main goes on to its loops with no
\* job, prints nothing and can always take a step until it has returned.
C13_NoSourceFatal ==
    /\ NoSource =>
          /\ mainPc \in {"check", "fatal"}
          /\ cidrList = <<>>
          /\ spawned = 0
          /\ closerPc = "off"
          /\ closes = 0
          /\ output = <<>>
          /\ stderr = {}
    /\ mainPc = "fatal" => NoSource
    /\ (~NoSource /\ cidrList = <<>> /\ mainPc # "check") =>
          /\ mainPc \in {"spawn", "range", "done"}
          /\ spawned = 0
          /\ output = <<>>
          /\ stderr = {}
          /\ mainPc # "done" => ENABLED Next
          /\ mainPc = "done" => closes = 1

\* the run without an input source has ended in the error outcome
C13_Witness ==
    /\ NoSource
    /\ mainPc = "fatal"

\* C20: with an input source and no worker per pool, every run eventually
\* reaches the state in which every job is done, the result channel is
\* closed and main has returned.
C20_ZeroWorkers ==
    (concurrency = 0 /\ ~NoSource) =>
        <>( /\ Terminated
            /\ closes = 1
            /\ \A j \in Jobs : jpc[j] = "done" )

====
